---- MODULE Spec2Model ----
(***************************************************************************)
(* Field operations of the migration framework                             *)
(* (django/db/migrations/operations/fields.py): AddField, RemoveField,     *)
(* AlterField and RenameField acting on a Project State (field lists per   *)
(* model), on field objects held by reference, and on a schema editor.     *)
(***************************************************************************)
EXTENDS Integers, Sequences, FiniteSets, TLC

\* ---------------------------------------------------------------- bounds
\* how many times the runner re-runs state_forwards of one operation
MaxApply == 2
\* how many database_forwards / database_backwards calls follow
MaxDb == 2

\* ----------------------------------------------------------------- names
\* Names are sequences of characters so that str.lower() is computed.
LowerChar(c) ==
    CASE c = "A" -> "a"
      [] c = "B" -> "b"
      [] c = "P" -> "p"
      [] c = "R" -> "r"
      [] c = "Y" -> "y"
      [] OTHER -> c

Lower(s) == [i \in 1..Len(s) |-> LowerChar(s[i])]

\* model names an operation may be constructed with
ModelNames == { <<"P", "y">>, <<"p", "y">>, <<"R", "r">> }
\* field names an operation may be constructed with
FieldNames == { <<"a">>, <<"A">>, <<"b">> }
\* app labels the runner may pass to the methods
AppLabels == { "app", "App" }
\* model names the references_* queries are asked about
QueryModelNames == ModelNames \cup { <<"p", "Y">>, <<"r", "R">>, <<"P">> }
\* names the references_* queries are asked about
QueryNames == FieldNames \cup { <<"B">>, <<"a", "b">> }

\* ----------------------------------------------------- field descriptors
NOT_PROVIDED == "NOT_PROVIDED"

NoRel == [k |-> "none", to |-> ""]
StrRel == [k |-> "str", to |-> "Rr"]
ModelRel == [k |-> "model", to |-> "Rr"]

IntField(d) == [type |-> "int", default |-> d, rel |-> NoRel]
CharField == [type |-> "char", default |-> NOT_PROVIDED, rel |-> NoRel]
ForeignKey(r) == [type |-> "fk", default |-> NOT_PROVIDED, rel |-> r]

\* descriptors an AddField / AlterField may be constructed with
FieldArgs == { IntField("d5"), CharField, ForeignKey(StrRel), ForeignKey(ModelRel) }

\* --------------------------------------------------------- project state
PyKey == <<"app", <<"p", "y">> >>
RrKey == <<"app", <<"r", "r">> >>

\* field lists (name, descriptor) the model "py" may start with
InitFieldLists ==
    { << <<(<<"a">>), IntField(NOT_PROVIDED)>> >>,
      << <<(<<"a">>), IntField("d5")>>, <<(<<"b">>), ForeignKey(StrRel)>> >>,
      << <<(<<"b">>), ForeignKey(ModelRel)>>, <<(<<"A">>), IntField(NOT_PROVIDED)>>,
         <<(<<"a">>), IntField("d5")>> >>,
      << <<(<<"a">>), ForeignKey(ModelRel)>>, <<(<<"a">>), IntField(NOT_PROVIDED)>> >> }

Column(name, desc) == <<name, desc.type>>

VARIABLES
    heap,       \* field objects: object id -> descriptor
    state,      \* Project State: (app_label, lowercased model) -> <<(name, id)>>
    from_st,    \* the Project State before the last state_forwards
    state0,     \* the Project State before the first state_forwards
    columns,    \* schema editor: model key -> set of columns
    op,         \* the Operation instance
    ctor,       \* the descriptor given to the constructor of op
    app,        \* the app_label the runner passes to op's methods
    stage,      \* "idle", "op" (an operation), "inverse" (its structural inverse),
                \* "compared" (the operation has been compared, the run ends)
    applied,    \* number of state_forwards runs of op that returned
    dbcalls,    \* number of database_* calls of op
    last,       \* the last method call and its outcome
    prev,       \* the method call before it (same operation)
    lookups,    \* get_new_field results of the last database_* call
    routed,     \* router.allow_migrate consultations of the last database_* call
    calls,      \* schema editor calls of the last database_* call
    cmp         \* the last comparison op == other and its answer

vars == <<heap, state, from_st, state0, columns, op, ctor, app, stage, applied,
          dbcalls, last, prev, lookups, routed, calls, cmp>>

Returned == "returned"

\* ------------------------------------------------------------ operations
NoOp == [kind |-> "none", model_name |-> <<>>, name |-> <<>>, old_name |-> <<>>,
         new_name |-> <<>>, field |-> 0, preserve_default |-> TRUE]

\* AddField.__init__; field is the id of the descriptor object passed in
AddField(model_name, name, field, preserve_default) ==
    [kind |-> "AddField", model_name |-> model_name, name |-> name, old_name |-> <<>>,
     new_name |-> <<>>, field |-> field, preserve_default |-> preserve_default]

RemoveField(model_name, name) ==
    [kind |-> "RemoveField", model_name |-> model_name, name |-> name, old_name |-> <<>>,
     new_name |-> <<>>, field |-> 0, preserve_default |-> TRUE]

AlterField(model_name, name, field) ==
    [kind |-> "AlterField", model_name |-> model_name, name |-> name, old_name |-> <<>>,
     new_name |-> <<>>, field |-> field, preserve_default |-> TRUE]

RenameField(model_name, old_name, new_name) ==
    [kind |-> "RenameField", model_name |-> model_name, name |-> <<>>, old_name |-> old_name,
     new_name |-> new_name, field |-> 0, preserve_default |-> TRUE]

\* ------------------------------------------------------- state_forwards
\* faulty variant: the model name is used as written
StateKey_exact(self, app_label) == <<app_label, self.model_name>>

\* state.models[app_label, self.model_name.lower()]
StateKey(self, app_label) == <<app_label, Lower(self.model_name)>>

StateResult(st, hp, out) == [state |-> st, heap |-> hp, outcome |-> out]

\* field.clone(): a new object with the same constructor arguments
clone(hp, id) == Append(hp, hp[id])

\* faulty variant: the operation's own field goes into the state whatever preserve_default
AddField_state_field_shared(self, hp) ==
    [field |-> self.field, heap |-> hp]

\* lines 22-26: the descriptor that goes into the state, and the heap after
AddField_state_field(self, hp) ==
    IF ~self.preserve_default
    THEN LET hp1 == clone(hp, self.field)
             field == Len(hp1)
         IN [field |-> field, heap |-> [hp1 EXCEPT ![field].default = NOT_PROVIDED]]
    ELSE [field |-> self.field, heap |-> hp]

AddField_state_forwards(self, app_label, st, hp) ==
    LET key == StateKey(self, app_label)
        r == AddField_state_field(self, hp)
    IN IF key \notin DOMAIN st
       THEN StateResult(st, r.heap, "KeyError")
       ELSE StateResult([st EXCEPT ![key] = Append(@, <<self.name, r.field>>)],
                        r.heap, Returned)

\* faulty variant: the kept pairs are put in front of the new list, not behind
RemoveField_state_forwards_reversed(self, app_label, st, hp) ==
    LET key == StateKey(self, app_label)
        Keep(pair) == pair[1] # self.name
    IN IF key \notin DOMAIN st
       THEN StateResult(st, hp, "KeyError")
       ELSE LET kept == SelectSeq(st[key], Keep)
            IN StateResult([st EXCEPT ![key] = [i \in 1..Len(kept) |-> kept[Len(kept) + 1 - i]]],
                           hp, Returned)

\* faulty variant: only the first pair of the name is dropped
RemoveField_state_forwards_first_only(self, app_label, st, hp) ==
    LET key == StateKey(self, app_label)
    IN IF key \notin DOMAIN st
       THEN StateResult(st, hp, "KeyError")
       ELSE LET fields == st[key]
                S == {i \in 1..Len(fields) : fields[i][1] = self.name}
                first == IF S = {} THEN 0 ELSE CHOOSE i \in S : \A j \in S : i <= j
            IN StateResult(
                   [st EXCEPT ![key] =
                       [i \in 1..(Len(fields) - (IF first = 0 THEN 0 ELSE 1)) |->
                           IF first = 0 \/ i < first THEN fields[i] ELSE fields[i + 1]]],
                   hp, Returned)

\* faulty variant: the test on the name is inverted, the named pairs are the ones kept
RemoveField_state_forwards_inverted(self, app_label, st, hp) ==
    LET key == StateKey(self, app_label)
        Keep(pair) == pair[1] = self.name
    IN IF key \notin DOMAIN st
       THEN StateResult(st, hp, "KeyError")
       ELSE StateResult([st EXCEPT ![key] = SelectSeq(@, Keep)], hp, Returned)

RemoveField_state_forwards(self, app_label, st, hp) ==
    LET key == StateKey(self, app_label)
        Keep(pair) == pair[1] # self.name
    IN IF key \notin DOMAIN st
       THEN StateResult(st, hp, "KeyError")
       ELSE StateResult([st EXCEPT ![key] = SelectSeq(@, Keep)], hp, Returned)

\* faulty variant: the name is matched ignoring case
AlterField_state_forwards_nocase(self, app_label, st, hp) ==
    LET key == StateKey(self, app_label)
    IN IF key \notin DOMAIN st
       THEN StateResult(st, hp, "KeyError")
       ELSE StateResult(
                [st EXCEPT ![key] =
                    [i \in 1..Len(@) |->
                        <<@[i][1], IF Lower(@[i][1]) = Lower(self.name)
                                   THEN self.field ELSE @[i][2]>>]],
                hp, Returned)

AlterField_state_forwards(self, app_label, st, hp) ==
    LET key == StateKey(self, app_label)
    IN IF key \notin DOMAIN st
       THEN StateResult(st, hp, "KeyError")
       ELSE StateResult(
                [st EXCEPT ![key] =
                    [i \in 1..Len(@) |->
                        <<@[i][1], IF @[i][1] = self.name THEN self.field ELSE @[i][2]>>]],
                hp, Returned)

\* faulty variant: old_name and new_name are exchanged
RenameField_state_forwards_swapped(self, app_label, st, hp) ==
    LET key == StateKey(self, app_label)
    IN IF key \notin DOMAIN st
       THEN StateResult(st, hp, "KeyError")
       ELSE StateResult(
                [st EXCEPT ![key] =
                    [i \in 1..Len(@) |->
                        <<IF @[i][1] = self.new_name THEN self.old_name ELSE @[i][1], @[i][2]>>]],
                hp, Returned)

RenameField_state_forwards(self, app_label, st, hp) ==
    LET key == StateKey(self, app_label)
    IN IF key \notin DOMAIN st
       THEN StateResult(st, hp, "KeyError")
       ELSE StateResult(
                [st EXCEPT ![key] =
                    [i \in 1..Len(@) |->
                        <<IF @[i][1] = self.old_name THEN self.new_name ELSE @[i][1], @[i][2]>>]],
                hp, Returned)

state_forwards(self, app_label, st, hp) ==
    CASE self.kind = "AddField" -> AddField_state_forwards(self, app_label, st, hp)
      [] self.kind = "RemoveField" -> RemoveField_state_forwards(self, app_label, st, hp)
      [] self.kind = "AlterField" -> AlterField_state_forwards(self, app_label, st, hp)
      [] self.kind = "RenameField" -> RenameField_state_forwards(self, app_label, st, hp)

\* ---------------------------------------------------- database methods
DbResult(hp, cols, lk, rt, cl, out) ==
    [heap |-> hp, columns |-> cols, lookups |-> lk, routed |-> rt, calls |-> cl,
     outcome |-> out]

\* state.render().get_model(app_label, model_name): the app label is matched
\* exactly, the model name ignoring case; the rendered model is named by its key
get_model(st, app_label, model_name) ==
    LET key == <<app_label, Lower(model_name)>>
    IN IF key \in DOMAIN st THEN <<key>> ELSE <<>>

\* model._meta.get_new_field(name, True): position of the field called name in
\* the rendered model (a later pair of the same name replaces an earlier one),
\* 0 when the model has no such field
get_new_field(fields, name) ==
    LET S == {i \in 1..Len(fields) : fields[i][1] = name}
    IN IF S = {} THEN 0 ELSE CHOOSE i \in S : \A j \in S : j <= i

\* a field of a rendered model: its name, the object, and the object's value now
FieldArg(name, id, hp) == [name |-> name, id |-> id, desc |-> hp[id]]

Consulted(role, key) == [role |-> role, model |-> key]

BackendCall(fn, key, args) == [fn |-> fn, model |-> key, args |-> args]

\* schema_editor.add_field / remove_field / alter_field on the columns of a model
add_field(cols, key, f) == [cols EXCEPT ![key] = @ \cup {Column(f.name, f.desc)}]

remove_field(cols, key, f) == [cols EXCEPT ![key] = @ \ {Column(f.name, f.desc)}]

alter_field(cols, key, from_field, to_field) ==
    [cols EXCEPT ![key] = (@ \ {Column(from_field.name, from_field.desc)})
                            \cup {Column(to_field.name, to_field.desc)}]

\* faulty variant: the real default is not attached before add_field
AddField_attach_default_skipped(self, hp, field) == hp

\* lines 34-35: if not self.preserve_default: field.default = self.field.default
AddField_attach_default(self, hp, field) ==
    IF ~self.preserve_default
    THEN [hp EXCEPT ![field].default = hp[self.field].default]
    ELSE hp

\* faulty variant: the default is not suppressed again after add_field
AddField_restore_default_skipped(self, hp, field) == hp

\* lines 40-41: if not self.preserve_default: field.default = NOT_PROVIDED
AddField_restore_default(self, hp, field) ==
    IF ~self.preserve_default
    THEN [hp EXCEPT ![field].default = NOT_PROVIDED]
    ELSE hp

AddField_database_forwards(self, app_label, from_state, to_state, hp, cols, allow, fails) ==
    LET from_model == get_model(from_state, app_label, self.model_name)
        to_model == get_model(to_state, app_label, self.model_name)
    IN IF from_model = <<>> \/ to_model = <<>>
       THEN DbResult(hp, cols, <<>>, <<>>, <<>>, "LookupError")
       ELSE
       LET key == to_model[1]
           rt == <<Consulted("to", key)>>
           i == get_new_field(to_state[key], self.name)
       IN IF ~allow THEN DbResult(hp, cols, <<>>, rt, <<>>, Returned)
          ELSE IF i = 0 THEN DbResult(hp, cols, <<>>, rt, <<>>, "FieldDoesNotExist")
          ELSE
          LET field == to_state[key][i][2]
              lk == <<FieldArg(self.name, field, hp)>>
              hp1 == AddField_attach_default(self, hp, field)
              arg == FieldArg(self.name, field, hp1)
              cl == <<BackendCall("add_field", from_model[1], <<arg>>)>>
          IN IF fails THEN DbResult(hp1, cols, lk, rt, cl, "BackendError")
             ELSE DbResult(AddField_restore_default(self, hp1, field),
                           add_field(cols, from_model[1], arg), lk, rt, cl, Returned)

AddField_database_backwards(self, app_label, from_state, to_state, hp, cols, allow, fails) ==
    LET from_model == get_model(from_state, app_label, self.model_name)
    IN IF from_model = <<>>
       THEN DbResult(hp, cols, <<>>, <<>>, <<>>, "LookupError")
       ELSE
       LET key == from_model[1]
           rt == <<Consulted("from", key)>>
           i == get_new_field(from_state[key], self.name)
       IN IF ~allow THEN DbResult(hp, cols, <<>>, rt, <<>>, Returned)
          ELSE IF i = 0 THEN DbResult(hp, cols, <<>>, rt, <<>>, "FieldDoesNotExist")
          ELSE
          LET arg == FieldArg(self.name, from_state[key][i][2], hp)
              cl == <<BackendCall("remove_field", key, <<arg>>)>>
          IN IF fails THEN DbResult(hp, cols, <<arg>>, rt, cl, "BackendError")
             ELSE DbResult(hp, remove_field(cols, key, arg), <<arg>>, rt, cl, Returned)

\* faulty variant: the answer of the router is ignored
RemoveField_database_forwards_unrouted(self, app_label, from_state, to_state, hp, cols, allow, fails) ==
    AddField_database_backwards(self, app_label, from_state, to_state, hp, cols, TRUE, fails)

RemoveField_database_forwards(self, app_label, from_state, to_state, hp, cols, allow, fails) ==
    LET from_model == get_model(from_state, app_label, self.model_name)
    IN IF from_model = <<>>
       THEN DbResult(hp, cols, <<>>, <<>>, <<>>, "LookupError")
       ELSE
       LET key == from_model[1]
           rt == <<Consulted("from", key)>>
           i == get_new_field(from_state[key], self.name)
       IN IF ~allow THEN DbResult(hp, cols, <<>>, rt, <<>>, Returned)
          ELSE IF i = 0 THEN DbResult(hp, cols, <<>>, rt, <<>>, "FieldDoesNotExist")
          ELSE
          LET arg == FieldArg(self.name, from_state[key][i][2], hp)
              cl == <<BackendCall("remove_field", key, <<arg>>)>>
          IN IF fails THEN DbResult(hp, cols, <<arg>>, rt, cl, "BackendError")
             ELSE DbResult(hp, remove_field(cols, key, arg), <<arg>>, rt, cl, Returned)

RemoveField_database_backwards(self, app_label, from_state, to_state, hp, cols, allow, fails) ==
    LET from_model == get_model(from_state, app_label, self.model_name)
        to_model == get_model(to_state, app_label, self.model_name)
    IN IF from_model = <<>> \/ to_model = <<>>
       THEN DbResult(hp, cols, <<>>, <<>>, <<>>, "LookupError")
       ELSE
       LET key == to_model[1]
           rt == <<Consulted("to", key)>>
           i == get_new_field(to_state[key], self.name)
       IN IF ~allow THEN DbResult(hp, cols, <<>>, rt, <<>>, Returned)
          ELSE IF i = 0 THEN DbResult(hp, cols, <<>>, rt, <<>>, "FieldDoesNotExist")
          ELSE
          LET arg == FieldArg(self.name, to_state[key][i][2], hp)
              cl == <<BackendCall("add_field", from_model[1], <<arg>>)>>
          IN IF fails THEN DbResult(hp, cols, <<arg>>, rt, cl, "BackendError")
             ELSE DbResult(hp, add_field(cols, from_model[1], arg), <<arg>>, rt, cl, Returned)

\* faulty variant: only the from side is patched
AlterField_patch_rel_from_only(hp, from_field, to_field) ==
    IF hp[from_field].rel.k # "none"
    THEN IF hp[to_field].rel.k = "none"
         THEN [heap |-> hp, outcome |-> "AttributeError"]
         ELSE IF hp[from_field].rel.k = "str"
         THEN [heap |-> [hp EXCEPT ![from_field].rel = hp[to_field].rel], outcome |-> Returned]
         ELSE [heap |-> hp, outcome |-> Returned]
    ELSE [heap |-> hp, outcome |-> Returned]

\* lines 127-131: a relation whose rel.to is still a string takes the rel.to of
\* the other side; to_field.rel.to is read without testing to_field.rel
AlterField_patch_rel(hp, from_field, to_field) ==
    IF hp[from_field].rel.k # "none"
    THEN IF hp[to_field].rel.k = "none"
         THEN [heap |-> hp, outcome |-> "AttributeError"]
         ELSE IF hp[from_field].rel.k = "str"
         THEN [heap |-> [hp EXCEPT ![from_field].rel = hp[to_field].rel], outcome |-> Returned]
         ELSE IF hp[to_field].rel.k = "str"
         THEN [heap |-> [hp EXCEPT ![to_field].rel = hp[from_field].rel], outcome |-> Returned]
         ELSE [heap |-> hp, outcome |-> Returned]
    ELSE [heap |-> hp, outcome |-> Returned]

AlterField_database_forwards(self, app_label, from_state, to_state, hp, cols, allow, fails) ==
    LET from_model == get_model(from_state, app_label, self.model_name)
        to_model == get_model(to_state, app_label, self.model_name)
    IN IF from_model = <<>> \/ to_model = <<>>
       THEN DbResult(hp, cols, <<>>, <<>>, <<>>, "LookupError")
       ELSE
       LET key == to_model[1]
           rt == <<Consulted("to", key)>>
           i == get_new_field(from_state[key], self.name)
           j == get_new_field(to_state[key], self.name)
       IN IF ~allow THEN DbResult(hp, cols, <<>>, rt, <<>>, Returned)
          ELSE IF i = 0 \/ j = 0 THEN DbResult(hp, cols, <<>>, rt, <<>>, "FieldDoesNotExist")
          ELSE
          LET from_field == from_state[key][i][2]
              to_field == to_state[key][j][2]
              lk == <<FieldArg(self.name, from_field, hp), FieldArg(self.name, to_field, hp)>>
              p == AlterField_patch_rel(hp, from_field, to_field)
              a1 == FieldArg(self.name, from_field, p.heap)
              a2 == FieldArg(self.name, to_field, p.heap)
              cl == <<BackendCall("alter_field", from_model[1], <<a1, a2>>)>>
          IN IF p.outcome # Returned THEN DbResult(p.heap, cols, lk, rt, <<>>, p.outcome)
             ELSE IF fails THEN DbResult(p.heap, cols, lk, rt, cl, "BackendError")
             ELSE DbResult(p.heap, alter_field(cols, from_model[1], a1, a2), lk, rt, cl, Returned)

\* faulty variant: the two states are exchanged once more on the way to database_forwards
AlterField_database_backwards_swapped(self, app_label, from_state, to_state, hp, cols, allow, fails) ==
    AlterField_database_forwards(self, app_label, to_state, from_state, hp, cols, allow, fails)

\* line 135: self.database_forwards(app_label, schema_editor, from_state, to_state)
AlterField_database_backwards(self, app_label, from_state, to_state, hp, cols, allow, fails) ==
    AlterField_database_forwards(self, app_label, from_state, to_state, hp, cols, allow, fails)

\* lines 174-178 and 184-188: alter_field(from_model, from_model's field called
\* from_name, to_model's field called to_name)
RenameField_alter(self, from_name, to_name, app_label, from_state, to_state, hp, cols, allow, fails) ==
    LET from_model == get_model(from_state, app_label, self.model_name)
        to_model == get_model(to_state, app_label, self.model_name)
    IN IF from_model = <<>> \/ to_model = <<>>
       THEN DbResult(hp, cols, <<>>, <<>>, <<>>, "LookupError")
       ELSE
       LET key == to_model[1]
           rt == <<Consulted("to", key)>>
           i == get_new_field(from_state[key], from_name)
           j == get_new_field(to_state[key], to_name)
       IN IF ~allow THEN DbResult(hp, cols, <<>>, rt, <<>>, Returned)
          ELSE IF i = 0 \/ j = 0 THEN DbResult(hp, cols, <<>>, rt, <<>>, "FieldDoesNotExist")
          ELSE
          LET a1 == FieldArg(from_name, from_state[key][i][2], hp)
              a2 == FieldArg(to_name, to_state[key][j][2], hp)
              cl == <<BackendCall("alter_field", from_model[1], <<a1, a2>>)>>
          IN IF fails THEN DbResult(hp, cols, <<a1, a2>>, rt, cl, "BackendError")
             ELSE DbResult(hp, alter_field(cols, from_model[1], a1, a2), <<a1, a2>>, rt, cl, Returned)

RenameField_database_forwards(self, app_label, from_state, to_state, hp, cols, allow, fails) ==
    RenameField_alter(self, self.old_name, self.new_name, app_label, from_state, to_state,
                      hp, cols, allow, fails)

RenameField_database_backwards(self, app_label, from_state, to_state, hp, cols, allow, fails) ==
    RenameField_alter(self, self.new_name, self.old_name, app_label, from_state, to_state,
                      hp, cols, allow, fails)

database_forwards(self, app_label, from_state, to_state, hp, cols, allow, fails) ==
    CASE self.kind = "AddField" ->
            AddField_database_forwards(self, app_label, from_state, to_state, hp, cols, allow, fails)
      [] self.kind = "RemoveField" ->
            RemoveField_database_forwards(self, app_label, from_state, to_state, hp, cols, allow, fails)
      [] self.kind = "AlterField" ->
            AlterField_database_forwards(self, app_label, from_state, to_state, hp, cols, allow, fails)
      [] self.kind = "RenameField" ->
            RenameField_database_forwards(self, app_label, from_state, to_state, hp, cols, allow, fails)

database_backwards(self, app_label, from_state, to_state, hp, cols, allow, fails) ==
    CASE self.kind = "AddField" ->
            AddField_database_backwards(self, app_label, from_state, to_state, hp, cols, allow, fails)
      [] self.kind = "RemoveField" ->
            RemoveField_database_backwards(self, app_label, from_state, to_state, hp, cols, allow, fails)
      [] self.kind = "AlterField" ->
            AlterField_database_backwards(self, app_label, from_state, to_state, hp, cols, allow, fails)
      [] self.kind = "RenameField" ->
            RenameField_database_backwards(self, app_label, from_state, to_state, hp, cols, allow, fails)

\* ------------------------------------------------- references_* queries
references_model(self, name) == Lower(name) = Lower(self.model_name)

references_field(self, model_name, name) ==
    references_model(self, model_name) /\ Lower(name) = Lower(self.name)

\* faulty variant: only old_name is matched
RenameField_references_field_old_only(self, model_name, name) ==
    references_model(self, model_name) /\ Lower(name) = Lower(self.old_name)

RenameField_references_field(self, model_name, name) ==
    references_model(self, model_name)
    /\ (Lower(name) = Lower(self.old_name) \/ Lower(name) = Lower(self.new_name))

\* faulty variant: the operation's model name is compared as written
op_references_model_exact(self, name) == Lower(name) = self.model_name

\* references_model of the operation's class (lines 59-60, 96-97, 148-149, 193-194)
op_references_model(self, name) == Lower(name) = Lower(self.model_name)

\* faulty variant: RenameField reports new_name only
op_references_field_new_only(self, model_name, name) ==
    IF self.kind = "RenameField"
    THEN op_references_model(self, model_name) /\ Lower(name) = Lower(self.new_name)
    ELSE op_references_model(self, model_name) /\ Lower(name) = Lower(self.name)

\* references_field of the operation's class (lines 62-63, 99-100, 151-152, 196-200)
op_references_field(self, model_name, name) ==
    IF self.kind = "RenameField"
    THEN op_references_model(self, model_name)
         /\ (Lower(name) = Lower(self.old_name) \/ Lower(name) = Lower(self.new_name))
    ELSE op_references_model(self, model_name) /\ Lower(name) = Lower(self.name)

\* --------------------------------------------------------------- __eq__
\* field.deconstruct(): the leading element refers to the field itself, the
\* others are its class and constructor arguments
deconstruct(hp, id) == <<id, hp[id].type, hp[id].default, hp[id].rel>>

\* faulty variant: the whole of deconstruct() is compared
AddField_eq_whole(self, other, hp) ==
    /\ self.kind = other.kind
    /\ self.name = other.name
    /\ Lower(self.model_name) = Lower(other.model_name)
    /\ deconstruct(hp, self.field) = deconstruct(hp, other.field)

\* AddField.__eq__, lines 51-57
AddField_eq(self, other, hp) ==
    /\ self.kind = other.kind
    /\ self.name = other.name
    /\ Lower(self.model_name) = Lower(other.model_name)
    /\ Tail(deconstruct(hp, self.field)) = Tail(deconstruct(hp, other.field))

\* AlterField.__eq__, lines 140-146
AlterField_eq(self, other, hp) ==
    /\ self.kind = other.kind
    /\ self.name = other.name
    /\ Lower(self.model_name) = Lower(other.model_name)
    /\ Tail(deconstruct(hp, self.field)) = Tail(deconstruct(hp, other.field))

\* a class without __eq__ compares by identity
object_eq(same) == same

\* faulty variant: RemoveField and RenameField compare their arguments
op_eq_by_value(self, other, same, hp) ==
    CASE self.kind = "AddField" -> AddField_eq(self, other, hp)
      [] self.kind = "AlterField" -> AlterField_eq(self, other, hp)
      [] OTHER -> /\ self.kind = other.kind
                  /\ self.name = other.name
                  /\ self.old_name = other.old_name
                  /\ self.new_name = other.new_name
                  /\ Lower(self.model_name) = Lower(other.model_name)

\* self == other; same tells whether other is the very instance self
op_eq(self, other, same, hp) ==
    CASE self.kind = "AddField" -> AddField_eq(self, other, hp)
      [] self.kind = "AlterField" -> AlterField_eq(self, other, hp)
      [] OTHER -> object_eq(same)

\* ------------------------------------------------------------ the runner
MethodCall(method, allow, out, hp, cols) ==
    [method |-> method, allow |-> allow, outcome |-> out, heap |-> hp, cols |-> cols]

NoCall == MethodCall("none", FALSE, "none", <<>>, <<>>)

Comparison(other, same, result) == [other |-> other, same |-> same, result |-> result]

NoCmp == Comparison(NoOp, FALSE, FALSE)

\* the ids 1..Len(fl) hold the descriptors of fl, in order
InitPairs(fl) == [i \in 1..Len(fl) |-> <<fl[i][1], i>>]

ColumnsOf(fields, hp) == {Column(fields[i][1], hp[fields[i][2]]) : i \in 1..Len(fields)}

Init ==
    \E fl \in InitFieldLists :
        /\ heap = [i \in 1..Len(fl) |-> fl[i][2]] \o <<IntField(NOT_PROVIDED)>>
        /\ state = (PyKey :> InitPairs(fl)) @@ (RrKey :> << <<(<<"a">>), Len(fl) + 1>> >>)
        /\ from_st = state
        /\ state0 = state
        /\ columns = [k \in DOMAIN state |-> ColumnsOf(state[k], heap)]
        /\ op = NoOp
        /\ ctor = IntField(NOT_PROVIDED)
        /\ app = "app"
        /\ stage = "idle"
        /\ applied = 0
        /\ dbcalls = 0
        /\ last = NoCall
        /\ prev = NoCall
        /\ lookups = <<>>
        /\ routed = <<>>
        /\ calls = <<>>
        /\ cmp = NoCmp

\* the runner takes an operation of a migration and an app label
Constructed(o, desc, hp, lbl) ==
    /\ stage = "idle"
    /\ op' = o
    /\ ctor' = desc
    /\ heap' = hp
    /\ app' = lbl
    /\ stage' = "op"
    /\ last' = MethodCall("construct", FALSE, Returned, heap, columns)
    /\ UNCHANGED <<state, from_st, state0, columns, applied, dbcalls, prev, lookups,
                   routed, calls, cmp>>

ConstructAddField ==
    \E m \in ModelNames, n \in FieldNames, d \in FieldArgs, pd \in BOOLEAN, lbl \in AppLabels :
        Constructed(AddField(m, n, Len(heap) + 1, pd), d, Append(heap, d), lbl)

ConstructRemoveField ==
    \E m \in ModelNames, n \in FieldNames, lbl \in AppLabels :
        Constructed(RemoveField(m, n), ctor, heap, lbl)

ConstructAlterField ==
    \E m \in ModelNames, n \in FieldNames, d \in FieldArgs, lbl \in AppLabels :
        Constructed(AlterField(m, n, Len(heap) + 1), d, Append(heap, d), lbl)

ConstructRenameField ==
    \E m \in ModelNames, old \in FieldNames, new \in FieldNames, lbl \in AppLabels :
        Constructed(RenameField(m, old, new), ctor, heap, lbl)

\* AddField(m, n, f) is undone by RemoveField(m, n), RenameField(m, old, new)
\* by RenameField(m, new, old)
Inverse(o) ==
    IF o.kind = "AddField"
    THEN RemoveField(o.model_name, o.name)
    ELSE RenameField(o.model_name, o.new_name, o.old_name)

\* the runner takes the structural inverse of the operation it has just applied
\* to the state
ConstructInverse ==
    /\ stage = "op"
    /\ op.kind \in {"AddField", "RenameField"}
    /\ applied = 1
    /\ dbcalls = 0
    /\ op' = Inverse(op)
    /\ stage' = "inverse"
    /\ applied' = 0
    /\ last' = MethodCall("construct", FALSE, Returned, heap, columns)
    /\ prev' = NoCall
    /\ UNCHANGED <<heap, state, from_st, state0, columns, ctor, app, dbcalls, lookups,
                   routed, calls, cmp>>

\* op.state_forwards(app_label, state) on the runner's state; the state before
\* it is kept as the from_state of the database methods
StateForwards ==
    /\ stage \in {"op", "inverse"}
    /\ applied < MaxApply
    /\ dbcalls = 0
    /\ last.outcome = Returned
    /\ LET r == state_forwards(op, app, state, heap)
       IN /\ heap' = r.heap
          /\ state' = r.state
          /\ from_st' = IF r.outcome = Returned THEN state ELSE from_st
          /\ applied' = IF r.outcome = Returned THEN applied + 1 ELSE applied
          /\ last' = MethodCall("state_forwards", FALSE, r.outcome, heap, columns)
    /\ prev' = last
    /\ UNCHANGED <<state0, columns, op, ctor, app, stage, dbcalls, lookups, routed, calls,
                   cmp>>

DatabaseCall(method, r, allow) ==
    /\ heap' = r.heap
    /\ columns' = r.columns
    /\ lookups' = r.lookups
    /\ routed' = r.routed
    /\ calls' = r.calls
    /\ dbcalls' = dbcalls + 1
    /\ last' = MethodCall(method, allow, r.outcome, heap, columns)
    /\ prev' = last
    /\ UNCHANGED <<state, from_st, state0, op, ctor, app, stage, applied, cmp>>

\* op.database_forwards(app_label, schema_editor, from_state, to_state); the
\* router answers allow, the schema editor fails or not
DatabaseForwards ==
    /\ stage \in {"op", "inverse"}
    /\ applied >= 1
    /\ dbcalls < MaxDb
    /\ \E allow \in BOOLEAN, fails \in BOOLEAN :
          DatabaseCall("database_forwards",
                       database_forwards(op, app, from_st, state, heap, columns, allow, fails),
                       allow)

\* op.database_backwards(app_label, schema_editor, from_state, to_state) with
\* the two states swapped by the runner
DatabaseBackwards ==
    /\ stage \in {"op", "inverse"}
    /\ applied >= 1
    /\ dbcalls < MaxDb
    /\ \E allow \in BOOLEAN, fails \in BOOLEAN :
          DatabaseCall("database_backwards",
                       database_backwards(op, app, state, from_st, heap, columns, allow, fails),
                       allow)

\* arguments of the operations op is compared with
OtherModelNames == { <<"p", "y">>, <<"R", "r">> }
OtherFieldNames == { <<"a">>, <<"A">> }
OtherFieldArgs == FieldArgs \cup { IntField(NOT_PROVIDED) }

\* op == other right after op has been constructed
Compared(other, hp, same) ==
    /\ stage \in {"op", "inverse"}
    /\ last.method = "construct"
    /\ heap' = hp
    /\ cmp' = Comparison(other, same, op_eq(op, other, same, hp))
    /\ stage' = "compared"
    /\ last' = MethodCall("__eq__", FALSE, Returned, heap, columns)
    /\ prev' = last
    /\ UNCHANGED <<state, from_st, state0, columns, op, ctor, app, applied, dbcalls,
                   lookups, routed, calls>>

CompareSelf == Compared(op, heap, TRUE)

CompareAddField ==
    \E m \in OtherModelNames, n \in OtherFieldNames, d \in OtherFieldArgs, pd \in BOOLEAN :
        Compared(AddField(m, n, Len(heap) + 1, pd), Append(heap, d), FALSE)

CompareRemoveField ==
    \E m \in OtherModelNames, n \in OtherFieldNames :
        Compared(RemoveField(m, n), heap, FALSE)

CompareAlterField ==
    \E m \in OtherModelNames, n \in OtherFieldNames, d \in OtherFieldArgs :
        Compared(AlterField(m, n, Len(heap) + 1), Append(heap, d), FALSE)

CompareRenameField ==
    \E m \in OtherModelNames, old \in OtherFieldNames, new \in OtherFieldNames :
        Compared(RenameField(m, old, new), heap, FALSE)

Next ==
    \/ ConstructAddField
    \/ ConstructRemoveField
    \/ ConstructAlterField
    \/ ConstructRenameField
    \/ ConstructInverse
    \/ StateForwards
    \/ DatabaseForwards
    \/ DatabaseBackwards
    \/ CompareSelf
    \/ CompareAddField
    \/ CompareRemoveField
    \/ CompareAlterField
    \/ CompareRenameField

Spec == Init /\ [][Next]_vars

\* ============================================================== claims
\* the field list the operation works on, before and after the last
\* state_forwards
OpKey == StateKey(op, app)

Names(fields) == {fields[i][1] : i \in 1..Len(fields)}

Ran(method) == last.method = method /\ last.outcome = Returned

\* ------------------------------------------------------------------ C1
AddForwardsReturned ==
    /\ op.kind = "AddField"
    /\ ~op.preserve_default
    /\ Ran("database_forwards")

\* C1 as stated: after database_forwards of an AddField with
\* preserve_default=False has returned, the field object passed into the
\* operation has the default NOT_PROVIDED.
C1_PassedInFieldNotProvided ==
    AddForwardsReturned => heap[op.field].default = NOT_PROVIDED

\* C1 amended: once database_forwards of an AddField with
\* preserve_default=False has returned after calling add_field, the rendered
\* to-model field it handed to add_field has the default NOT_PROVIDED; that
\* field is another object than the field passed into the operation, which is
\* never modified and keeps the default it was constructed with.
C1_RenderedFieldNotProvided ==
    (AddForwardsReturned /\ calls # <<>>) =>
        /\ heap[calls[1].args[1].id].default = NOT_PROVIDED
        /\ calls[1].args[1].id # op.field
        /\ heap[op.field] = ctor

C1_Witness ==
    /\ AddForwardsReturned
    /\ calls # <<>>
    /\ ctor.default = "d5"
    /\ calls[1].args[1].desc.default = "d5"

\* ------------------------------------------------------------------ C2
\* C2: in database_forwards of an AddField with preserve_default=False that
\* the router permits, the rendered field (looked up with its default
\* suppressed) is given the operation's real default, add_field is called
\* exactly once with the field carrying that default, and when add_field
\* returns the default of the field is NOT_PROVIDED again.
C2_DefaultAttachedCalledRestored ==
    (/\ op.kind = "AddField"
     /\ ~op.preserve_default
     /\ last.method = "database_forwards"
     /\ last.allow) =>
        /\ Len(calls) = 1
        /\ calls[1].fn = "add_field"
        /\ Len(calls[1].args) = 1
        /\ calls[1].args[1].id = lookups[1].id
        /\ calls[1].args[1].desc.default = ctor.default
        /\ calls[1].args[1].desc.default = heap[op.field].default
        /\ (last.outcome = Returned => heap[calls[1].args[1].id].default = NOT_PROVIDED)

C2_Witness ==
    /\ op.kind = "AddField"
    /\ ~op.preserve_default
    /\ Ran("database_forwards")
    /\ last.allow
    /\ ctor.default = "d5"
    /\ lookups[1].desc.default = NOT_PROVIDED
    /\ calls[1].args[1].desc.default = "d5"
    /\ heap[calls[1].args[1].id].default = NOT_PROVIDED

\* ------------------------------------------------------------------ C3
InverseApplied ==
    /\ stage = "inverse"
    /\ applied = 1
    /\ Ran("state_forwards")

\* the name the original operation introduced is new to the original list
IntroducedNameFree ==
    IF op.kind = "RemoveField"
    THEN op.name \notin Names(state0[OpKey])
    ELSE op.old_name \notin Names(state0[OpKey]) \/ op.old_name = op.new_name

\* C3 as stated: state_forwards of an operation followed by state_forwards of
\* its structural inverse restores the field list of the model, for every
\* Project State and every operation.
C3_InverseRestoresAlways ==
    InverseApplied => state[OpKey] = state0[OpKey]

\* C3 amended: when the name introduced (the name of AddField, the new_name of
\* RenameField unless it equals old_name) is not already the name of a pair of
\* the model's field list, state_forwards followed by the state_forwards of the
\* structural inverse restores the field list, same entries in the same order.
C3_InverseRestoresFreshName ==
    (InverseApplied /\ IntroducedNameFree) => state[OpKey] = state0[OpKey]

C3_Witness ==
    /\ InverseApplied
    /\ IntroducedNameFree
    /\ state[OpKey] # from_st[OpKey]
    /\ Len(state0[OpKey]) >= 2

\* ------------------------------------------------------------------ C4
\* database_forwards(from_state, to_state) and then
\* database_backwards(to_state, from_state), both permitted, both returned
RoundTrip ==
    /\ prev.method = "database_forwards"
    /\ prev.allow
    /\ prev.outcome = Returned
    /\ last.method = "database_backwards"
    /\ last.allow
    /\ last.outcome = Returned

\* before the forward call the backend has the columns of the from_state, and
\* the name introduced is not the name of one of its fields
RoundTripConsistent ==
    /\ prev.cols[OpKey] = ColumnsOf(from_st[OpKey], prev.heap)
    /\ op.kind = "AddField" => op.name \notin Names(from_st[OpKey])
    /\ op.kind = "RenameField" =>
          op.new_name \notin Names(from_st[OpKey]) \/ op.new_name = op.old_name

RouterRefused ==
    /\ last.method \in {"database_forwards", "database_backwards"}
    /\ routed # <<>>
    /\ ~last.allow

\* C5: when the router returns false for the model a database method checks,
\* the method makes no schema editor call, raises nothing, and leaves every
\* field object (default and relation target) and the columns as they were.
C5_RouterRefusedNoOp ==
    RouterRefused =>
        /\ calls = <<>>
        /\ lookups = <<>>
        /\ Len(routed) = 1
        /\ last.outcome = Returned
        /\ heap = last.heap
        /\ columns = last.cols

C5_Witness ==
    /\ RouterRefused
    /\ op.kind = "RemoveField"
    /\ last.method = "database_forwards"
    /\ get_new_field(from_st[OpKey], op.name) # 0

\* ------------------------------------------------------------------ C6
\* C6: AddField.state_forwards appends exactly one pair (name, field) to the
\* field list of the model and leaves the earlier pairs as they were; with
\* preserve_default false the stored field is a new object, a clone of the
\* operation's field with the default NOT_PROVIDED, and with preserve_default
\* true it is the operation's field with its default.
C6_AddFieldAppends ==
    (op.kind = "AddField" /\ Ran("state_forwards")) =>
        LET old == from_st[OpKey]
            new == state[OpKey]
            field == new[Len(new)][2]
        IN /\ Len(new) = Len(old) + 1
           /\ SubSeq(new, 1, Len(old)) = old
           /\ new[Len(new)][1] = op.name
           /\ \A i \in 1..Len(last.heap) : heap[i] = last.heap[i]
           /\ IF op.preserve_default
              THEN field = op.field /\ heap[field] = ctor
              ELSE /\ field > Len(last.heap)
                   /\ heap[field] = [ctor EXCEPT !.default = NOT_PROVIDED]
                   /\ heap[op.field] = ctor

C6_Witness ==
    /\ op.kind = "AddField"
    /\ Ran("state_forwards")
    /\ ~op.preserve_default
    /\ ctor.default = "d5"
    /\ heap[state[OpKey][Len(state[OpKey])][2]].default = NOT_PROVIDED
    /\ Len(from_st[OpKey]) = 2

\* ------------------------------------------------------------------ C7
IsRel(f) == f.desc.rel.k # "none"

\* exactly one of the two fields looked up had a string as rel.to, the other a
\* model
OneSideUnresolved ==
    /\ Len(lookups) = 2
    /\ {lookups[1].desc.rel.k, lookups[2].desc.rel.k} = {"str", "model"}

\* C7: in AlterField.database_forwards with the router permitting, when exactly
\* one of from_field and to_field has an unresolved string as relation target
\* and the other a resolved model, alter_field is called with both fields
\* referencing that resolved model.
C7_BothSidesResolved ==
    (/\ op.kind = "AlterField"
     /\ last.method = "database_forwards"
     /\ last.allow
     /\ OneSideUnresolved) =>
        /\ Len(calls) = 1
        /\ calls[1].fn = "alter_field"
        /\ calls[1].args[1].id = lookups[1].id
        /\ calls[1].args[2].id = lookups[2].id
        /\ calls[1].args[1].desc.rel = ModelRel
        /\ calls[1].args[2].desc.rel = ModelRel

C7_Witness ==
    /\ op.kind = "AlterField"
    /\ Ran("database_forwards")
    /\ last.allow
    /\ OneSideUnresolved
    /\ lookups[1].desc.rel = StrRel
    /\ calls[1].args[1].desc.rel = ModelRel

\* ------------------------------------------------------------------ C8
\* C8: AlterField.state_forwards puts the operation's field in every pair whose
\* name equals the operation's name and passes the other pairs through: same
\* length, same names, same order.
C8_AlterFieldReplaces ==
    (op.kind = "AlterField" /\ Ran("state_forwards")) =>
        LET old == from_st[OpKey]
            new == state[OpKey]
        IN /\ Len(new) = Len(old)
           /\ \A i \in 1..Len(old) :
                 /\ new[i][1] = old[i][1]
                 /\ new[i][2] = IF old[i][1] = op.name THEN op.field ELSE old[i][2]

C8_Witness ==
    /\ op.kind = "AlterField"
    /\ Ran("state_forwards")
    /\ applied = 1
    /\ \E i, j \in 1..Len(state[OpKey]) :
          /\ state[OpKey][i][1] = op.name
          /\ state[OpKey][i][2] = op.field
          /\ from_st[OpKey][i][2] # op.field
          /\ state[OpKey][j][1] # op.name
          /\ Lower(state[OpKey][j][1]) = Lower(op.name)

\* ------------------------------------------------------------------ C9
\* C9: RenameField.state_forwards puts new_name in every pair named old_name,
\* keeps the field and the position of every pair, and leaves the pairs of
\* other names as they were.
C9_RenameFieldRenames ==
    (op.kind = "RenameField" /\ Ran("state_forwards")) =>
        LET old == from_st[OpKey]
            new == state[OpKey]
        IN /\ Len(new) = Len(old)
           /\ \A i \in 1..Len(old) :
                 /\ new[i][2] = old[i][2]
                 /\ new[i][1] = IF old[i][1] = op.old_name THEN op.new_name ELSE old[i][1]

C9_Witness ==
    /\ op.kind = "RenameField"
    /\ Ran("state_forwards")
    /\ op.old_name # op.new_name
    /\ \E i, j \in 1..Len(state[OpKey]) :
          /\ from_st[OpKey][i][1] = op.old_name
          /\ state[OpKey][i][1] = op.new_name
          /\ from_st[OpKey][j][1] # op.old_name

\* ----------------------------------------------------------------- C10
\* C10: a RenameField references its model's field under old_name and under
\* new_name, and under no name that matches neither ignoring case; the answers
\* are the same after state_forwards and the database methods as before.
C10_RenameReferencesBothNames ==
    op.kind = "RenameField" =>
        /\ RenameField_references_field(op, op.model_name, op.old_name)
        /\ RenameField_references_field(op, op.model_name, op.new_name)
        /\ \A x \in QueryNames :
              (Lower(x) # Lower(op.old_name) /\ Lower(x) # Lower(op.new_name))
                  => ~RenameField_references_field(op, op.model_name, x)

C10_Witness ==
    /\ op.kind = "RenameField"
    /\ op.old_name # op.new_name
    /\ Lower(op.old_name) # Lower(op.new_name)
    /\ dbcalls = 2
    /\ \E x \in QueryNames : Lower(x) # Lower(op.old_name) /\ Lower(x) # Lower(op.new_name)

\* ----------------------------------------------------------------- C11
\* upper and lower case of the letters used in names
Letters == { <<"a", "A">>, <<"b", "B">>, <<"p", "P">>, <<"r", "R">>, <<"y", "Y">> }

SameLetter(c, d) == c = d \/ \E l \in Letters : {c, d} = {l[1], l[2]}

\* two names are equal ignoring letter case
SameIgnoringCase(s, t) ==
    Len(s) = Len(t) /\ \A i \in 1..Len(s) : SameLetter(s[i], t[i])

\* the field names an operation is about
OpFieldNames(o) == IF o.kind = "RenameField" THEN {o.old_name, o.new_name} ELSE {o.name}

\* C11: for each of the four operations references_model(name) is true iff
\* name equals the operation's model name ignoring letter case, and
\* references_field(model_name, field_name) is true iff references_model(model_name)
\* holds and field_name equals the operation's field name (either name for
\* RenameField) ignoring letter case.
C11_ReferencesIgnoreCase ==
    op.kind # "none" =>
        \A m \in QueryModelNames :
            /\ op_references_model(op, m) <=> SameIgnoringCase(m, op.model_name)
            /\ \A x \in QueryNames :
                  op_references_field(op, m, x) <=>
                      /\ op_references_model(op, m)
                      /\ \E n \in OpFieldNames(op) : SameIgnoringCase(x, n)

C11_Witness ==
    /\ op.kind = "AlterField"
    /\ op.model_name = <<"P", "y">>
    /\ op.name = <<"A">>
    /\ op_references_model(op, <<"p", "Y">>)
    /\ ~op_references_model(op, <<"P">>)
    /\ op_references_field(op, <<"p", "Y">>, <<"a">>)
    /\ ~op_references_field(op, <<"p", "Y">>, <<"a", "b">>)
    /\ ~op_references_field(op, <<"R", "r">>, <<"A">>)
    /\ dbcalls = 1

\* ----------------------------------------------------------------- C12
\* the canonical form of a descriptor: its class and constructor arguments
CanonicalForm(d) == <<d.type, d.default, d.rel>>

DifferOnlyInDefault(d, e) == d.type = e.type /\ d.rel = e.rel /\ d.default # e.default

\* op, an AddField or an AlterField, has been compared with an operation of
\* its class
ComparedTwo ==
    /\ last.method = "__eq__"
    /\ op.kind \in {"AddField", "AlterField"}
    /\ cmp.other.kind = op.kind

\* C12: two AddField operations (two AlterField operations) are equal iff they
\* have the same field name, the same model name ignoring letter case and
\* descriptors of the same canonical form; so an operation equals itself, the
\* answer is the same the other way round, and operations whose descriptors
\* differ only in the default are not equal.
C12_EqualityByCanonicalForm ==
    ComparedTwo =>
        LET a == heap[op.field]
            b == heap[cmp.other.field]
        IN /\ cmp.result <=>
                 /\ op.name = cmp.other.name
                 /\ SameIgnoringCase(op.model_name, cmp.other.model_name)
                 /\ CanonicalForm(a) = CanonicalForm(b)
           /\ cmp.same => cmp.result
           /\ op_eq(cmp.other, op, cmp.same, heap) = cmp.result
           /\ DifferOnlyInDefault(a, b) => ~cmp.result

C12_Witness ==
    /\ ComparedTwo
    /\ ~cmp.same
    /\ cmp.result
    /\ op.field # cmp.other.field
    /\ op.model_name # cmp.other.model_name
    /\ op.preserve_default # cmp.other.preserve_default

\* ----------------------------------------------------------------- C17
SameArguments(o, other) ==
    /\ o.kind = other.kind
    /\ o.model_name = other.model_name
    /\ o.name = other.name

\* C17: a RemoveField operation is equal to itself and to no other instance,
\* not even one with the same model name and field name.
C17_RemoveFieldIdentity ==
    (last.method = "__eq__" /\ op.kind = "RemoveField") =>
        /\ cmp.result <=> cmp.same
        /\ (~cmp.same /\ SameArguments(op, cmp.other)) => ~cmp.result

C17_Witness ==
    /\ last.method = "__eq__"
    /\ op.kind = "RemoveField"
    /\ ~cmp.same
    /\ SameArguments(op, cmp.other)
    /\ ~cmp.result

\* ----------------------------------------------------------------- C13
\* state_forwards of op has run again on the state it had already been
\* applied to
Reapplied == applied >= 2 /\ Ran("state_forwards")

\* C13 as stated: state_forwards of each of the four operations is idempotent,
\* running it again on the state it has been applied to changes nothing.
C13_IdempotentAlways ==
    Reapplied => state = from_st

\* C13 amended: state_forwards of RemoveField, AlterField and RenameField is
\* idempotent, running it again on the state it has been applied to leaves
\* the state and the field objects as they are; state_forwards of AddField is
\* not, every run appends one more pair of the operation's name.
C13_IdempotentExceptAddField ==
    Reapplied =>
        IF op.kind = "AddField"
        THEN /\ Len(state[OpKey]) = Len(from_st[OpKey]) + 1
             /\ state[OpKey][Len(state[OpKey])][1] = op.name
             /\ from_st[OpKey][Len(from_st[OpKey])][1] = op.name
        ELSE state = from_st /\ heap = last.heap

C13_Witness ==
    /\ Reapplied
    /\ op.kind = "RemoveField"
    /\ stage = "op"
    /\ state = from_st
    /\ Len(state[OpKey]) < Len(state0[OpKey])

\* ----------------------------------------------------------------- C14
\* C14: no method changes the Operation object: whatever state_forwards,
\* database_forwards and database_backwards calls have been made, the field
\* descriptor of the operation is as it was given to the constructor.
C14_OperationFieldUnchanged ==
    op.kind \in {"AddField", "AlterField"} => heap[op.field] = ctor

\* ----------------------------------------------------------------- C15
RECURSIVE IsSubsequence(_, _)
\* the entries of a are entries of b, in the order they have in b
IsSubsequence(a, b) ==
    IF a = <<>> THEN TRUE
    ELSE IF b = <<>> THEN FALSE
    ELSE IF Head(a) = Head(b) THEN IsSubsequence(Tail(a), Tail(b))
    ELSE IsSubsequence(a, Tail(b))

\* C15: the field list stays in insertion order under state_forwards: AddField
\* puts the new pair last, AlterField keeps every name and RenameField every
\* field at its position, RemoveField keeps the remaining pairs in the order
\* they had.
C15_InsertionOrderKept ==
    Ran("state_forwards") =>
        LET old == from_st[OpKey]
            new == state[OpKey]
        IN CASE op.kind = "AddField" ->
                    Len(new) = Len(old) + 1 /\ SubSeq(new, 1, Len(old)) = old
             [] op.kind = "RemoveField" -> IsSubsequence(new, old)
             [] op.kind = "AlterField" ->
                    Len(new) = Len(old) /\ \A i \in 1..Len(old) : new[i][1] = old[i][1]
             [] op.kind = "RenameField" ->
                    Len(new) = Len(old) /\ \A i \in 1..Len(old) : new[i][2] = old[i][2]

C15_Witness ==
    /\ Ran("state_forwards")
    /\ op.kind = "RemoveField"
    /\ Len(state[OpKey]) = 2
    /\ Len(from_st[OpKey]) = 3
    /\ state[OpKey][1] = from_st[OpKey][1]
    /\ state[OpKey][2] = from_st[OpKey][3]

\* ----------------------------------------------------------------- C16
\* the entries of the Project State under the app label as given and the
\* operation's model name in any letter case
TargetKeys ==
    {k \in DOMAIN state0 : k[1] = app /\ SameIgnoringCase(k[2], op.model_name)}

\* C16: state_forwards works on the entry (app_label, lowercased model_name)
\* only: it finds the entry whatever the letter case of the model name and only
\* under the app label exactly as given, leaves the field lists of all other
\* models as they were, and consults no router and calls no schema editor.
C16_OnlyTargetEntry ==
    last.method = "state_forwards" =>
        /\ DOMAIN state = DOMAIN state0
        /\ last.outcome = Returned <=> TargetKeys # {}
        /\ last.outcome = Returned =>
              \A k \in DOMAIN state : k \notin TargetKeys => state[k] = from_st[k]
        /\ last.outcome # Returned => state = state0
        /\ routed = <<>> /\ calls = <<>> /\ lookups = <<>>
        /\ columns = last.cols

C16_Witness ==
    /\ Ran("state_forwards")
    /\ op.model_name = <<"P", "y">>
    /\ TargetKeys = {PyKey}
    /\ state[PyKey] # from_st[PyKey]
    /\ state[RrKey] = from_st[RrKey]

\* the app label differs from the one of the state in letter case only: the
\* entry is not found
C16_WitnessAppLabel ==
    /\ last.method = "state_forwards"
    /\ app = "App"
    /\ last.outcome = "KeyError"

\* ----------------------------------------------------------------- C18
\* the name state_forwards looks for in the field list
NamedField == IF op.kind = "RenameField" THEN op.old_name ELSE op.name

FieldAbsent ==
    /\ op.kind \in {"RemoveField", "AlterField", "RenameField"}
    /\ last.method = "state_forwards"
    /\ OpKey \in DOMAIN from_st
    /\ NamedField \notin Names(from_st[OpKey])

\* C18: when the named field is not in the target model's field list,
\* state_forwards of RemoveField, AlterField and RenameField raises nothing and
\* leaves the list with the same pairs in the same order, the rest of the
\* state being unchanged as well.
C18_AbsentFieldSilent ==
    FieldAbsent =>
        /\ last.outcome = Returned
        /\ state[OpKey] = from_st[OpKey]
        /\ state = from_st
        /\ heap = last.heap

C18_Witness ==
    /\ FieldAbsent
    /\ op.kind = "AlterField"
    /\ op.name = <<"A">>
    /\ <<"a">> \in Names(from_st[OpKey])
    /\ Len(from_st[OpKey]) >= 2

\* ----------------------------------------------------------------- C19
\* database_forwards of an AddField with preserve_default=False got as far as
\* looking the rendered field up
AddForwardsLookedUp ==
    /\ op.kind = "AddField"
    /\ ~op.preserve_default
    /\ last.method = "database_forwards"
    /\ last.allow
    /\ Len(lookups) = 1

\* C19: for AddField with preserve_default=False the rendered field carries
\* the real default only while add_field runs: on every exit from
\* database_forwards, an exit by add_field raising included, the default of the
\* rendered field is NOT_PROVIDED.
C19_DefaultClearedOnEveryExit ==
    AddForwardsLookedUp => heap[lookups[1].id].default = NOT_PROVIDED

\* what lines 36-41 do: the default is cleared on the exit by return only
C19_DefaultClearedOnReturn ==
    (AddForwardsLookedUp /\ last.outcome = Returned) =>
        heap[lookups[1].id].default = NOT_PROVIDED

\* add_field raised and the rendered field, which the state holds, keeps the
\* real default
C19_DefaultLeftBehind ==
    /\ AddForwardsLookedUp
    /\ last.outcome = "BackendError"
    /\ lookups[1].desc.default = NOT_PROVIDED
    /\ heap[lookups[1].id].default = "d5"
    /\ \E i \in 1..Len(state[OpKey]) : state[OpKey][i][2] = lookups[1].id

\* ----------------------------------------------------------------- C20
DatabaseMethods == {"database_forwards", "database_backwards"}

\* the two states the runner hands to the last database method
CallFromState == IF last.method = "database_forwards" THEN from_st ELSE state

CallToState == IF last.method = "database_forwards" THEN state ELSE from_st

\* the field called name of the rendered model: the last pair of that name
LastId(fields, name) ==
    LET S == {i \in 1..Len(fields) : fields[i][1] = name}
    IN fields[CHOOSE i \in S : \A j \in S : j <= i][2]

\* the backend function the claim gives for the operation and the direction
ExpectedFn ==
    CASE op.kind = "AddField" ->
            IF last.method = "database_forwards" THEN "add_field" ELSE "remove_field"
      [] op.kind = "RemoveField" ->
            IF last.method = "database_forwards" THEN "remove_field" ELSE "add_field"
      [] OTHER -> "alter_field"

\* the fields the claim gives as arguments: <<state, name>> for each
ExpectedArgs ==
    CASE op.kind = "AddField" ->
            IF last.method = "database_forwards"
            THEN << <<CallToState, op.name>> >> ELSE << <<CallFromState, op.name>> >>
      [] op.kind = "RemoveField" ->
            IF last.method = "database_forwards"
            THEN << <<CallFromState, op.name>> >> ELSE << <<CallToState, op.name>> >>
      [] op.kind = "AlterField" ->
            << <<CallFromState, op.name>>, <<CallToState, op.name>> >>
      [] op.kind = "RenameField" ->
            IF last.method = "database_forwards"
            THEN << <<CallFromState, op.old_name>>, <<CallToState, op.new_name>> >>
            ELSE << <<CallFromState, op.new_name>>, <<CallToState, op.old_name>> >>

\* the router permitted the last database method and the fields it is to pass
\* on exist in the rendered models
PermittedWithFields ==
    /\ last.method \in DatabaseMethods
    /\ last.allow
    /\ \A j \in 1..Len(ExpectedArgs) :
          ExpectedArgs[j][2] \in Names(ExpectedArgs[j][1][OpKey])

OneMatchingCall ==
    /\ Len(routed) = 1
    /\ Len(calls) = 1
    /\ calls[1].fn = ExpectedFn
    /\ calls[1].model = OpKey
    /\ Len(calls[1].args) = Len(ExpectedArgs)
    /\ \A j \in 1..Len(ExpectedArgs) :
          /\ calls[1].args[j].name = ExpectedArgs[j][2]
          /\ calls[1].args[j].id = LastId(ExpectedArgs[j][1][OpKey], ExpectedArgs[j][2])

\* C20: when the router permits, a database method consults the router exactly
\* once on every call and makes exactly one schema editor call of the kind of
\* the operation and the direction, on the from-model, with the fields of the
\* from-model and the to-model the operation names.
C20_OneRouterOneBackendCall ==
    PermittedWithFields => OneMatchingCall

\* the same with the calls left out in which AlterField stops at lines 129-130
C20_ExceptAttributeError ==
    (PermittedWithFields /\ last.outcome # "AttributeError") => OneMatchingCall

\* AlterField from a relation to a field without one: the router is consulted
\* and alter_field is never called
C20_NoBackendCall ==
    /\ PermittedWithFields
    /\ op.kind = "AlterField"
    /\ last.outcome = "AttributeError"
    /\ Len(routed) = 1
    /\ calls = <<>>

\* ----------------------------------------------------------------- C21
\* the names of the pairs of the target model's field list that the last
\* state_forwards removed (RemoveField) or replaced by another pair at the same
\* position (AlterField, RenameField)
TouchedNames ==
    LET old == from_st[OpKey]
        new == state[OpKey]
    IN IF op.kind = "RemoveField"
       THEN {old[i][1] : i \in {j \in 1..Len(old) : \A l \in 1..Len(new) : new[l] # old[j]}}
       ELSE {old[i][1] : i \in {j \in 1..Len(old) : j > Len(new) \/ new[j] # old[j]}}

\* the names in the field list before the call that the operation reports as
\* referenced
ReferencedNames ==
    {n \in Names(from_st[OpKey]) : op_references_field(op, op.model_name, n)}

\* C21: for RemoveField, AlterField and RenameField, state_forwards changes or
\* removes a pair of the target model's field list only if references_field is
\* true of the model and the pair's name: the names touched are a subset of
\* the names reported as referenced, under the model name as the operation
\* has it and as the state keys it.
C21_TouchedAreReferenced ==
    (Ran("state_forwards") /\ op.kind \in {"RemoveField", "AlterField", "RenameField"}) =>
        /\ TouchedNames \subseteq ReferencedNames
        /\ \A n \in TouchedNames : op_references_field(op, OpKey[2], n)

\* a pair is touched, and a pair whose name differs from it in letter case is
\* reported as referenced and left alone
C21_Witness ==
    /\ Ran("state_forwards")
    /\ op.kind = "RenameField"
    /\ TouchedNames = {<<"a">>}
    /\ ReferencedNames = {<<"a">>, <<"A">>}
    /\ <<"A">> \in Names(state[OpKey])

====
